---- MODULE Spec2Model ----
(***************************************************************************)
(* Model of src/dashboard/dashboard.py: the Sao Paulo date-range dashboard *)
(* (load_data, filter_sao_paulo_data, process_monthly_data,                *)
(* calculate_payment_stats, calculate_review_stats and the render cycle of *)
(* main).                                                                  *)
(*                                                                         *)
(* A DataFrame is a sequence of rows (records); the field idx is the row's *)
(* index label, which boolean indexing keeps.  A date is the integer       *)
(* yymmdd and a timestamp the integer yymmddhhmm, so that comparing two    *)
(* timestamps is comparing two integers.  A float mean is the reduced      *)
(* fraction [num, den].  A cell that may be missing (NaN) is a set: {} for *)
(* NaN, {v} for the value v.                                               *)
(***************************************************************************)
EXTENDS Integers, Sequences, FiniteSets, TLC

\* ------------------------------------------------------------- bounds
\* Rows per input table.
MaxRows == 2

\* ------------------------------------------------------------- values
OrderIds == {1, 2}

\* The dates (yymmdd) a date picker can return.
Dates == {180131, 180201}

\* Purchase timestamps (yymmddhhmm) of the order rows.
OrderTimes == {1801310000, 1801312359, 1802010000}

\* Creation timestamps of the review rows.
ReviewTimes == {1801310000, 1802010000}

PaymentValues == {50, 100}

ReviewScores == {1, 5}

\* The customers table: customer A lives in SP, customer B does not.
CustomerRows ==
    << [customer_id |-> "A", customer_city |-> "sao paulo", customer_state |-> "SP"],
       [customer_id |-> "B", customer_city |-> "niteroi", customer_state |-> "RJ"] >>

all_months == [i \in 1..12 |-> [month |-> i]]

\* ------------------------------------------------------------ helpers
Rows(t) == {t[i] : i \in DOMAIN t}

\* All sequences over S of length at most n.
SeqsUpTo(S, n) == UNION {[1..k -> S] : k \in 0..n}

\* A table read from a file: the rows get the index labels 1..n.
WithIdx(t) == [i \in DOMAIN t |-> t[i] @@ [idx |-> i]]

RECURSIVE GCD(_, _)
GCD(a, b) == IF b = 0 THEN a ELSE GCD(b, a % b)

\* s / k for k > 0, as a reduced fraction.
Rat(s, k) ==
    LET g == GCD(s, k)
    IN  [num |-> s \div g, den |-> k \div g]

Zero == [num |-> 0, den |-> 1]

RECURSIVE SumSeq(_)
SumSeq(s) == IF s = <<>> THEN 0 ELSE Head(s) + SumSeq(Tail(s))

RECURSIVE Flatten(_)
Flatten(ss) == IF ss = <<>> THEN <<>> ELSE Head(ss) \o Flatten(Tail(ss))

RECURSIVE SortedSeq(_)
SortedSeq(S) ==
    IF S = {} THEN <<>>
    ELSE LET m == CHOOSE x \in S : \A y \in S : x <= y
         IN  <<m>> \o SortedSeq(S \ {m})

\* pd.Timestamp(d) of a date d: midnight at the start of that day.
Timestamp(d) == d * 10000

\* Series.dt.year, Series.dt.month, Timestamp.date()
YearOf(ts) == 2000 + (ts \div 100000000)

MonthOf(ts) == (ts \div 1000000) % 100

DateOf(ts) == ts \div 10000

\* ---------------------------------------------------------- load_data
LoadOrders(raw) ==
    [i \in DOMAIN raw |->
        raw[i] @@ [year  |-> YearOf(raw[i].order_purchase_timestamp),
                   month |-> MonthOf(raw[i].order_purchase_timestamp)]]

LoadReviews(raw) ==
    [i \in DOMAIN raw |->
        raw[i] @@ [year  |-> YearOf(raw[i].review_creation_date),
                   month |-> MonthOf(raw[i].review_creation_date)]]

\* ---------------------------------------------- filter_sao_paulo_data
sao_paulo_customers(cust) ==
    {cust[i].customer_id : i \in {j \in DOMAIN cust : cust[j].customer_state = "SP"}}

sao_paulo_orders(ord, cust) ==
    SelectSeq(ord, LAMBDA r : r.customer_id \in sao_paulo_customers(cust))

\* Mutant of InDateRange: the two comparisons joined by | instead of &.
InDateRange_Or(ts, s, e) == ts >= Timestamp(s) \/ ts <= Timestamp(e)

\* The window test of lines 34-35 and 45-46.
InDateRange(ts, s, e) == ts >= Timestamp(s) /\ ts <= Timestamp(e)

sao_paulo_orders_date_range(ord, cust, s, e) ==
    SelectSeq(sao_paulo_orders(ord, cust),
              LAMBDA r : InDateRange(r.order_purchase_timestamp, s, e))

sp_order_ids(ord, cust, s, e) ==
    {r.order_id : r \in Rows(sao_paulo_orders_date_range(ord, cust, s, e))}

\* Mutant of sp_payments: the payments are returned as they came.
sp_payments_Unfiltered(ord, cust, pay, s, e) == pay

sp_payments(ord, cust, pay, s, e) ==
    SelectSeq(pay, LAMBDA r : r.order_id \in sp_order_ids(ord, cust, s, e))

sp_reviews(ord, cust, rev, s, e) ==
    SelectSeq(rev, LAMBDA r : r.order_id \in sp_order_ids(ord, cust, s, e))

\* Mutant of sp_reviews_date_range: the reviews are filtered by order only.
sp_reviews_date_range_OrderOnly(ord, cust, rev, s, e) ==
    sp_reviews(ord, cust, rev, s, e)

sp_reviews_date_range(ord, cust, rev, s, e) ==
    SelectSeq(sp_reviews(ord, cust, rev, s, e),
              LAMBDA r : InDateRange(r.review_creation_date, s, e))

\* ----------------------------------------------- process_monthly_data
\* The year_month period (yymm) and the month, written into a copy.
process_monthly_data(of) ==
    [i \in DOMAIN of |->
        [year_month |-> of[i].order_purchase_timestamp \div 1000000,
         month      |-> MonthOf(of[i].order_purchase_timestamp)] @@ of[i]]

\* Mutant of MergePayments: the two frames joined row by row (on the index)
\* instead of on order_id.
MergePayments_ByPosition(md, pf) ==
    [i \in DOMAIN pf |->
        [order_id |-> pf[i].order_id,
         payment_value |-> pf[i].payment_value,
         month |-> IF i \in DOMAIN md THEN {md[i].month} ELSE {}]]

\* Mutant of MergePayments: one row per order, its first payment.
MergePayments_FirstPerOrder(md, pf) ==
    LET keep == SelectSeq([i \in DOMAIN pf |-> i],
                          LAMBDA i : \A j \in 1..(i - 1) : pf[j].order_id # pf[i].order_id)
    IN  [n \in DOMAIN keep |->
            [order_id |-> pf[keep[n]].order_id,
             payment_value |-> pf[keep[n]].payment_value,
             month |-> {o.month : o \in {r \in Rows(md) : r.order_id = pf[keep[n]].order_id}}]]

\* -------------------------------------------- calculate_payment_stats
\* payments_filtered.merge(monthly_data[['order_id', 'month']], on='order_id',
\* how='left'): one row per matching order row, in the order table's order,
\* and one row with a missing month when no order row matches.
MergePayments(md, pf) ==
    Flatten([i \in DOMAIN pf |->
        LET hit == SelectSeq(md, LAMBDA o : o.order_id = pf[i].order_id)
        IN  IF hit = <<>>
            THEN << [order_id |-> pf[i].order_id,
                     payment_value |-> pf[i].payment_value, month |-> {}] >>
            ELSE [j \in DOMAIN hit |->
                     [order_id |-> pf[i].order_id,
                      payment_value |-> pf[i].payment_value,
                      month |-> {hit[j].month}]]])

\* groupby('month'): the groups' keys, ascending; a missing key has no group.
GroupKeys(data) == SortedSeq(UNION {r.month : r \in Rows(data)})

Group(data, m) == SelectSeq(data, LAMBDA r : m \in r.month)

\* Mutant of Mean: the sum instead of the mean.
Mean_Sum(vals) == Rat(SumSeq(vals), 1)

Mean(vals) == Rat(SumSeq(vals), Len(vals))

\* groupby('month').agg(avg_payment=('payment_value', 'mean')).reset_index()
payment_groupby(data) ==
    LET keys == GroupKeys(data)
    IN  [i \in DOMAIN keys |->
            LET g == Group(data, keys[i])
            IN  [month |-> keys[i],
                 avg_payment |-> {Mean([j \in DOMAIN g |-> g[j].payment_value])}]]

\* Mutant of MergeAllMonths: an inner join, which keeps only the months that
\* have a row.
MergeAllMonths_Inner(stats, col) ==
    Flatten([i \in DOMAIN all_months |->
        LET hit == SelectSeq(stats, LAMBDA r : r.month = all_months[i].month)
        IN  [j \in DOMAIN hit |-> [month |-> all_months[i].month, val |-> hit[j][col]]]])

\* all_months.merge(stats, on='month', how='left'): the cell is missing where
\* no row of stats has the month.
MergeAllMonths(stats, col) ==
    Flatten([i \in DOMAIN all_months |->
        LET hit == SelectSeq(stats, LAMBDA r : r.month = all_months[i].month)
        IN  IF hit = <<>>
            THEN << [month |-> all_months[i].month, val |-> {}] >>
            ELSE [j \in DOMAIN hit |->
                     [month |-> all_months[i].month, val |-> hit[j][col]]]])

\* .fillna(0)
FillNa(c) == IF c = {} THEN Zero ELSE CHOOSE v \in c : TRUE

calculate_payment_stats(md, pf) ==
    LET merged == MergeAllMonths(payment_groupby(MergePayments(md, pf)), "avg_payment")
    IN  [i \in DOMAIN merged |->
            [month |-> merged[i].month, avg_payment |-> FillNa(merged[i].val)]]

\* --------------------------------------------- calculate_review_stats
reviews_data(rf) ==
    [i \in DOMAIN rf |->
        [month |-> {MonthOf(rf[i].review_creation_date)},
         review_score |-> rf[i].review_score]]

review_groupby(data) ==
    LET keys == GroupKeys(data)
    IN  [i \in DOMAIN keys |->
            LET g == Group(data, keys[i])
            IN  [month |-> keys[i],
                 avg_score |-> {Mean([j \in DOMAIN g |-> g[j].review_score])}]]

calculate_review_stats(md, rf) ==
    LET merged == MergeAllMonths(review_groupby(reviews_data(rf)), "avg_score")
    IN  [i \in DOMAIN merged |->
            [month |-> merged[i].month, avg_score |-> FillNa(merged[i].val)]]

\* --------------------------------------------------------------- state
VARIABLES
    pc,                     \* the position in main, or in the run of the functions
    source,                 \* the files: "ok", "missing", "malformed" (a timestamp
                            \* column that does not parse), "no_payment_value",
                            \* "no_review_score" (a file without that column)
    files,                  \* the rows of the files
    orders, customers, payments, reviews,          \* what load_data returned
    start_date, end_date,   \* the selected window ({} before it is selected)
    orders_filtered, payments_filtered, reviews_filtered,
    monthly_data,
    payment_data,           \* the merged frame inside calculate_payment_stats
    monthly_payment_stats, monthly_review_stats,
    raised,                 \* the exception in flight ("none": none)
    messages,               \* what main has shown: st.error, st.warning, ...
    charts,                 \* the charts main has displayed, in order
    run,                    \* the number of the run over the loaded tables
    first                   \* the tables the first run returned

vars == << pc, source, files, orders, customers, payments, reviews,
           start_date, end_date, orders_filtered, payments_filtered,
           reviews_filtered, monthly_data, payment_data, monthly_payment_stats,
           monthly_review_stats, raised, messages, charts, run, first >>

tables == << orders, customers, payments, reviews >>

window == << start_date, end_date >>

filtered == << orders_filtered, payments_filtered, reviews_filtered >>

display == << messages, charts >>

\* ------------------------------------------------------- input tables
OrderRows(custs) ==
    [order_id : OrderIds, customer_id : custs, order_purchase_timestamp : OrderTimes]

PaymentRows == [order_id : OrderIds, payment_value : PaymentValues]

ReviewRows(ids, scores) ==
    [order_id : ids, review_score : scores, review_creation_date : ReviewTimes]

\* order_id is the key of the orders file.
UniqueIds(t) == \A i, j \in DOMAIN t : t[i].order_id = t[j].order_id => i = j

\* The files' rows.  Payments and reviews never meet in the code, so one of
\* the two files is left empty.
FileSets ==
    { [orders |-> o, payments |-> p, reviews |-> r] :
        o \in {t \in SeqsUpTo(OrderRows({"A", "B"}), MaxRows) : UniqueIds(t)},
        p \in SeqsUpTo(PaymentRows, MaxRows),
        r \in {<< >>} }
    \cup
    { [orders |-> o, payments |-> p, reviews |-> r] :
        o \in {t \in SeqsUpTo(OrderRows({"A", "B"}), MaxRows) : UniqueIds(t)},
        p \in {<< >>},
        r \in SeqsUpTo(ReviewRows(OrderIds, {5}), MaxRows) }

\* Mutant of FilterSaoPauloData: the filter narrows the loaded tables in place.
FilterSaoPauloData_InPlace(from, to) ==
    /\ pc = from
    /\ \E s \in start_date : \E e \in end_date :
        /\ orders' = sao_paulo_orders_date_range(orders, customers, s, e)
        /\ payments' = sp_payments(orders, customers, payments, s, e)
        /\ reviews' = sp_reviews_date_range(orders, customers, reviews, s, e)
    /\ orders_filtered' = orders'
    /\ payments_filtered' = payments'
    /\ reviews_filtered' = reviews'
    /\ raised' = "none"
    /\ pc' = to
    /\ UNCHANGED << source, files, customers, window, monthly_data, payment_data,
                    monthly_payment_stats, monthly_review_stats, display, run, first >>

\* ------------------------------------------------------------ actions
\* orders_filtered, payments_filtered, reviews_filtered =
\*     filter_sao_paulo_data(orders, customers, payments, reviews, start_date, end_date)
\* The function has no raise statement and writes to none of its arguments.
FilterSaoPauloData(from, to) ==
    /\ pc = from
    /\ \E s \in start_date : \E e \in end_date :
        /\ orders_filtered' = sao_paulo_orders_date_range(orders, customers, s, e)
        /\ payments_filtered' = sp_payments(orders, customers, payments, s, e)
        /\ reviews_filtered' = sp_reviews_date_range(orders, customers, reviews, s, e)
    /\ raised' = "none"
    /\ pc' = to
    /\ UNCHANGED << source, files, tables, window, monthly_data, payment_data,
                    monthly_payment_stats, monthly_review_stats, display, run, first >>

\* monthly_data = process_monthly_data(orders_filtered)
ProcessMonthlyData ==
    /\ pc = "process"
    /\ monthly_data' = process_monthly_data(orders_filtered)
    /\ pc' = "payment"
    /\ UNCHANGED << source, files, tables, window, filtered, payment_data,
                    monthly_payment_stats, monthly_review_stats, raised, display,
                    run, first >>

\* monthly_payment_stats = calculate_payment_stats(monthly_data, payments_filtered)
\* Without a payment_value column in the payments file the aggregation of
\* line 70 raises a KeyError.
CalculatePaymentStats ==
    /\ pc = "payment"
    /\ IF source = "no_payment_value"
       THEN /\ raised' = "KeyError"
            /\ pc' = "except"
            /\ UNCHANGED << payment_data, monthly_payment_stats >>
       ELSE /\ payment_data' = MergePayments(monthly_data, payments_filtered)
            /\ monthly_payment_stats' =
                    calculate_payment_stats(monthly_data, payments_filtered)
            /\ pc' = "review"
            /\ UNCHANGED raised
    /\ UNCHANGED << source, files, tables, window, filtered, monthly_data,
                    monthly_review_stats, display, run, first >>

\* monthly_review_stats = calculate_review_stats(monthly_data, reviews_filtered)
\* Without a review_score column in the reviews file the aggregation of line
\* 87 raises a KeyError.
CalculateReviewStats(to) ==
    /\ pc = "review"
    /\ IF source = "no_review_score"
       THEN /\ raised' = "KeyError"
            /\ pc' = "except"
            /\ UNCHANGED monthly_review_stats
       ELSE /\ monthly_review_stats' =
                    calculate_review_stats(monthly_data, reviews_filtered)
            /\ pc' = to
            /\ UNCHANGED raised
    /\ UNCHANGED << source, files, tables, window, filtered, monthly_data,
                    payment_data, monthly_payment_stats, display, run, first >>

\* Nothing computed, shown or raised yet.
Fresh ==
    /\ monthly_data = << >> /\ payment_data = << >>
    /\ monthly_payment_stats = << >> /\ monthly_review_stats = << >>
    /\ raised = "none"
    /\ messages = << >> /\ charts = << >>
    /\ run = 1
    /\ first = << >>

\* ------------------------------------ the pipeline on loaded tables
\* filter_sao_paulo_data -> process_monthly_data -> calculate_payment_stats ->
\* calculate_review_stats on the tables load_data returns and any window, run
\* twice over.
PipeInit ==
    /\ pc = "filter"
    /\ source = "ok"
    /\ files \in FileSets
    /\ orders = LoadOrders(WithIdx(files.orders))
    /\ customers = WithIdx(CustomerRows)
    /\ payments = WithIdx(files.payments)
    /\ reviews = LoadReviews(WithIdx(files.reviews))
    /\ \E s \in Dates : start_date = {s}
    /\ \E e \in Dates : end_date = {e}
    /\ orders_filtered = << >> /\ payments_filtered = << >> /\ reviews_filtered = << >>
    /\ Fresh

PipeFilter == FilterSaoPauloData("filter", "process")

PipeReview == CalculateReviewStats("done")

\* The second run: the same loaded tables and the same window.
Rerun ==
    /\ pc = "done"
    /\ run = 1
    /\ run' = 2
    /\ first' = << orders_filtered, payments_filtered, reviews_filtered,
                   monthly_payment_stats, monthly_review_stats >>
    /\ orders_filtered' = << >> /\ payments_filtered' = << >> /\ reviews_filtered' = << >>
    /\ monthly_data' = << >> /\ payment_data' = << >>
    /\ monthly_payment_stats' = << >> /\ monthly_review_stats' = << >>
    /\ pc' = "filter"
    /\ UNCHANGED << source, files, tables, window, raised, display >>

PipeNext ==
    \/ PipeFilter
    \/ ProcessMonthlyData
    \/ CalculatePaymentStats
    \/ PipeReview
    \/ Rerun

SpecPipe == PipeInit /\ [][PipeNext]_vars

\* ------------------------------- the aggregators on any filtered tables
\* process_monthly_data, calculate_payment_stats and calculate_review_stats on
\* any order, payment and review tables: repeated order ids, payments of
\* orders that are not in the order table.
AggInit ==
    /\ pc = "process"
    /\ source = "ok"
    /\ files = << >>
    /\ orders = << >> /\ customers = << >> /\ payments = << >> /\ reviews = << >>
    /\ start_date = {} /\ end_date = {}
    /\ Fresh
    /\ \E o \in SeqsUpTo(OrderRows({"A"}), MaxRows) : orders_filtered = LoadOrders(WithIdx(o))
    /\ \/ /\ \E p \in SeqsUpTo(PaymentRows, MaxRows) : payments_filtered = WithIdx(p)
          /\ reviews_filtered = << >>
       \/ /\ payments_filtered = << >>
          /\ \E r \in SeqsUpTo(ReviewRows({1}, ReviewScores), MaxRows) :
                 reviews_filtered = LoadReviews(WithIdx(r))

AggNext ==
    \/ ProcessMonthlyData
    \/ CalculatePaymentStats
    \/ PipeReview

SpecAgg == AggInit /\ [][AggNext]_vars

\* ----------------------------------------------------------------- main
RECURSIVE MinSeq(_)
MinSeq(s) ==
    IF Len(s) = 1 THEN Head(s)
    ELSE LET m == MinSeq(Tail(s)) IN IF Head(s) <= m THEN Head(s) ELSE m

RECURSIVE MaxSeq(_)
MaxSeq(s) ==
    IF Len(s) = 1 THEN Head(s)
    ELSE LET m == MaxSeq(Tail(s)) IN IF Head(s) >= m THEN Head(s) ELSE m

PurchaseTimes(ord) == [i \in DOMAIN ord |-> ord[i].order_purchase_timestamp]

\* orders['order_purchase_timestamp'].min().date() and .max().date()
min_date(ord) == DateOf(MinSeq(PurchaseTimes(ord)))

max_date(ord) == DateOf(MaxSeq(PurchaseTimes(ord)))

\* A render cycle starts with nothing loaded and nothing shown.
Init ==
    /\ pc = "load"
    /\ \/ source \in {"ok", "no_payment_value", "no_review_score"} /\ files \in FileSets
       \/ source \in {"missing", "malformed"} /\ files = << >>
    /\ orders = << >> /\ customers = << >> /\ payments = << >> /\ reviews = << >>
    /\ start_date = {} /\ end_date = {}
    /\ orders_filtered = << >> /\ payments_filtered = << >> /\ reviews_filtered = << >>
    /\ Fresh

\* orders, customers, payments, reviews = load_data(): read_csv raises
\* FileNotFoundError for a missing file; to_datetime or a column lookup raises
\* another exception for a malformed one.
LoadData ==
    /\ pc = "load"
    /\ \/ /\ source \in {"ok", "no_payment_value", "no_review_score"}
          /\ orders' = LoadOrders(WithIdx(files.orders))
          /\ customers' = WithIdx(CustomerRows)
          /\ payments' = WithIdx(files.payments)
          /\ reviews' = LoadReviews(WithIdx(files.reviews))
          /\ pc' = "start_date"
          /\ UNCHANGED raised
       \/ /\ source = "missing"
          /\ raised' = "FileNotFoundError"
          /\ pc' = "except"
          /\ UNCHANGED tables
       \/ /\ source = "malformed"
          /\ raised' = "Exception"
          /\ pc' = "except"
          /\ UNCHANGED tables
    /\ UNCHANGED << source, files, window, filtered, monthly_data, payment_data,
                    monthly_payment_stats, monthly_review_stats, display, run, first >>

\* min_date, max_date and the start date picker.  The minimum of an empty
\* column is NaT, which the date picker does not take.  The picked date lies
\* between min_value and max_value.
StartDateInput ==
    /\ pc = "start_date"
    /\ \/ /\ orders = << >>
          /\ raised' = "Exception"
          /\ pc' = "except"
          /\ UNCHANGED start_date
       \/ /\ orders # << >>
          /\ \E d \in Dates :
                /\ min_date(orders) <= d /\ d <= max_date(orders)
                /\ start_date' = {d}
          /\ pc' = "end_date"
          /\ UNCHANGED raised
    /\ UNCHANGED << source, files, tables, end_date, filtered, monthly_data,
                    payment_data, monthly_payment_stats, monthly_review_stats,
                    display, run, first >>

\* The end date picker.  Its min_value is start_date, and main still tests
\* start_date > end_date afterwards: the date kept from an earlier cycle may
\* lie before the start date picked in this one.
EndDateInput ==
    /\ pc = "end_date"
    /\ \E d \in Dates :
          /\ min_date(orders) <= d /\ d <= max_date(orders)
          /\ end_date' = {d}
    /\ pc' = "validate"
    /\ UNCHANGED << source, files, tables, start_date, filtered, monthly_data,
                    payment_data, monthly_payment_stats, monthly_review_stats,
                    raised, display, run, first >>

\* if start_date > end_date: st.error(...); return
ValidateWindow ==
    /\ pc = "validate"
    /\ \E s \in start_date : \E e \in end_date :
          IF s > e
          THEN messages' = Append(messages, "error") /\ pc' = "done"
          ELSE UNCHANGED messages /\ pc' = "filter"
    /\ UNCHANGED << source, files, tables, window, filtered, monthly_data,
                    payment_data, monthly_payment_stats, monthly_review_stats,
                    raised, charts, run, first >>

MainFilter == FilterSaoPauloData("filter", "check")

\* Mutant of CheckEmpty: the test for an empty order table is left out.
CheckEmpty_Skip ==
    /\ pc = "check"
    /\ pc' = "process"
    /\ UNCHANGED << source, files, tables, window, filtered, monthly_data,
                    payment_data, monthly_payment_stats, monthly_review_stats,
                    raised, display, run, first >>

\* if len(orders_filtered) == 0: st.warning(...); return
CheckEmpty ==
    /\ pc = "check"
    /\ IF Len(orders_filtered) = 0
       THEN messages' = Append(messages, "warning") /\ pc' = "done"
       ELSE UNCHANGED messages /\ pc' = "process"
    /\ UNCHANGED << source, files, tables, window, filtered, monthly_data,
                    payment_data, monthly_payment_stats, monthly_review_stats,
                    raised, charts, run, first >>

MainReview == CalculateReviewStats("show")

\* st.subheader(...); st.info(...)
ShowInfo ==
    /\ pc = "show"
    /\ messages' = messages \o << "subheader", "info" >>
    /\ pc' = "payment_chart"
    /\ UNCHANGED << source, files, tables, window, filtered, monthly_data,
                    payment_data, monthly_payment_stats, monthly_review_stats,
                    raised, charts, run, first >>

\* st.altair_chart(payment_chart, ...)
ShowPaymentChart ==
    /\ pc = "payment_chart"
    /\ charts' = Append(charts, [chart |-> "payment", data |-> monthly_payment_stats])
    /\ pc' = "review_chart"
    /\ UNCHANGED << source, files, tables, window, filtered, monthly_data,
                    payment_data, monthly_payment_stats, monthly_review_stats,
                    raised, messages, run, first >>

\* st.altair_chart(review_chart, ...)
ShowReviewChart ==
    /\ pc = "review_chart"
    /\ charts' = Append(charts, [chart |-> "review", data |-> monthly_review_stats])
    /\ pc' = "done"
    /\ UNCHANGED << source, files, tables, window, filtered, monthly_data,
                    payment_data, monthly_payment_stats, monthly_review_stats,
                    raised, messages, run, first >>

\* except FileNotFoundError: st.error(...)
ExceptFileNotFound ==
    /\ pc = "except"
    /\ raised = "FileNotFoundError"
    /\ messages' = Append(messages, "error")
    /\ raised' = "none"
    /\ pc' = "done"
    /\ UNCHANGED << source, files, tables, window, filtered, monthly_data,
                    payment_data, monthly_payment_stats, monthly_review_stats,
                    charts, run, first >>

\* except Exception as e: st.error(...); st.exception(e)
ExceptException ==
    /\ pc = "except"
    /\ raised \notin {"none", "FileNotFoundError"}
    /\ messages' = messages \o << "error", "exception" >>
    /\ raised' = "none"
    /\ pc' = "done"
    /\ UNCHANGED << source, files, tables, window, filtered, monthly_data,
                    payment_data, monthly_payment_stats, monthly_review_stats,
                    charts, run, first >>

Next ==
    \/ LoadData
    \/ StartDateInput
    \/ EndDateInput
    \/ ValidateWindow
    \/ MainFilter
    \/ CheckEmpty
    \/ ProcessMonthlyData
    \/ CalculatePaymentStats
    \/ MainReview
    \/ ShowInfo
    \/ ShowPaymentChart
    \/ ShowReviewChart
    \/ ExceptFileNotFound
    \/ ExceptException

Spec == Init /\ [][Next]_vars

\* =============================================================== claims
TheStart == CHOOSE s \in start_date : TRUE

TheEnd == CHOOSE e \in end_date : TRUE

\* In a run of the pipeline: filter_sao_paulo_data has returned.
PipeFiltered == pc \in {"process", "payment", "review", "done"}

\* calculate_payment_stats has returned.
PaymentStatsDone == pc \in {"review", "done"}

OrderIdsOf(t) == {t[i].order_id : i \in DOMAIN t}

RECURSIVE SumFn(_, _)
SumFn(S, f) ==
    IF S = {} THEN 0
    ELSE LET x == CHOOSE y \in S : TRUE IN f[x] + SumFn(S \ {x}, f)

\* A 12-row table, row i for month i.
Dense(t) == Len(t) = 12 /\ \A i \in 1..12 : t[i].month = i

\* The payment rows whose order is not in the order table.
Orphans == {i \in DOMAIN payments_filtered :
                payments_filtered[i].order_id \notin OrderIdsOf(monthly_data)}

\* C1: whatever the filtered order, payment and review tables (empty ones,
\* payments of orders that are not in the order table), the tables
\* calculate_payment_stats and calculate_review_stats return have exactly 12
\* rows, row i for month i: ascending, none repeated, none missing.
C1_TwelveMonths ==
    /\ PaymentStatsDone => Dense(monthly_payment_stats)
    /\ pc = "done" => Dense(monthly_review_stats)

C1_Witness ==
    /\ pc = "done"
    /\ Orphans # {}
    /\ reviews_filtered = << >>
    /\ Dense(monthly_payment_stats)
    /\ Dense(monthly_review_stats)

\* The payment rows the claim C2 counts for month m: those whose parent order
\* was purchased in month m.
Matching(m) ==
    {i \in DOMAIN payments_filtered :
        \E j \in DOMAIN orders_filtered :
            /\ orders_filtered[j].order_id = payments_filtered[i].order_id
            /\ MonthOf(orders_filtered[j].order_purchase_timestamp) = m}

BucketOf(t, m) == {t[i] : i \in {j \in DOMAIN t : t[j].month = m}}

\* C2: for every month m of 1..12 the avg_payment of bucket m is S / k, for
\* the k >= 1 filtered payment rows whose parent order was purchased in month
\* m and the sum S of their payment_value, and exactly 0 when k = 0.
C2_AvgPayment ==
    PaymentStatsDone =>
        \A m \in 1..12 :
            LET k == Cardinality(Matching(m))
                S == SumFn(Matching(m),
                           [i \in Matching(m) |-> payments_filtered[i].payment_value])
            IN  /\ BucketOf(monthly_payment_stats, m) # {}
                /\ \A b \in BucketOf(monthly_payment_stats, m) :
                        IF k = 0
                        THEN b.avg_payment = Zero
                        ELSE /\ b.avg_payment.num * k = S * b.avg_payment.den
                             /\ b.avg_payment.den > 0

\* Two orders of one month paid 100 and 50: 75 for that month, 0 for the
\* other eleven.
C2_Witness ==
    /\ PaymentStatsDone
    /\ Len(payments_filtered) = 2
    /\ \E m \in 1..12 :
        /\ \A b \in BucketOf(monthly_payment_stats, m) :
                b.avg_payment = [num |-> 75, den |-> 1]
        /\ \A n \in (1..12) \ {m} :
                \A b \in BucketOf(monthly_payment_stats, n) : b.avg_payment = Zero

\* C3: the tables filter_sao_paulo_data returns hold only rows of the tables
\* it was given, and every payment and review row it returns has the order_id
\* of an order row it returns.
C3_Narrowing ==
    PipeFiltered =>
        /\ Rows(orders_filtered) \subseteq Rows(orders)
        /\ Rows(payments_filtered) \subseteq Rows(payments)
        /\ Rows(reviews_filtered) \subseteq Rows(reviews)
        /\ OrderIdsOf(payments_filtered) \subseteq OrderIdsOf(orders_filtered)
        /\ OrderIdsOf(reviews_filtered) \subseteq OrderIdsOf(orders_filtered)

C3_Witness ==
    /\ PipeFiltered
    /\ orders_filtered # << >>
    /\ Len(orders_filtered) < Len(orders)
    /\ payments_filtered # << >>
    /\ Len(payments_filtered) < Len(payments)

\* C4: an order of a customer of the region is kept if and only if its
\* purchase timestamp lies from the start of start_date to the last instant
\* of end_date: the whole end day is in the window.
C4_EndDayInclusive ==
    PipeFiltered =>
        \A i \in DOMAIN orders :
            orders[i].customer_id \in sao_paulo_customers(customers) =>
                (orders[i] \in Rows(orders_filtered)
                    <=> /\ TheStart <= DateOf(orders[i].order_purchase_timestamp)
                        /\ DateOf(orders[i].order_purchase_timestamp) <= TheEnd)

\* C5 as claimed: with start_date after end_date the filter fails with
\* InvalidWindow.
C5_InvalidWindowRaised ==
    (PipeFiltered /\ TheStart > TheEnd) => raised = "InvalidWindow"

\* C5 as amended: with start_date after end_date the filter raises nothing and
\* returns three empty tables.
C5_InvalidWindowEmpty ==
    (PipeFiltered /\ TheStart > TheEnd) =>
        /\ raised = "none"
        /\ orders_filtered = << >>
        /\ payments_filtered = << >>
        /\ reviews_filtered = << >>

C5_Witness ==
    /\ PipeFiltered
    /\ TheStart > TheEnd
    /\ \E i \in DOMAIN orders : orders[i].customer_id \in sao_paulo_customers(customers)
    /\ payments # << >>
    /\ orders_filtered = << >>

\* C6: the pipeline leaves the four loaded tables as load_data returned them,
\* and the second run over them with the same window returns the tables the
\* first run returned.
C6_Idempotent ==
    /\ orders = LoadOrders(WithIdx(files.orders))
    /\ customers = WithIdx(CustomerRows)
    /\ payments = WithIdx(files.payments)
    /\ reviews = LoadReviews(WithIdx(files.reviews))
    /\ (run = 2 /\ pc = "done") =>
            first = << orders_filtered, payments_filtered, reviews_filtered,
                       monthly_payment_stats, monthly_review_stats >>

C6_Witness ==
    /\ run = 2
    /\ pc = "done"
    /\ orders_filtered # << >>
    /\ Len(orders_filtered) < Len(orders)
    /\ Len(payments_filtered) < Len(payments)

\* C7: a review row is returned if and only if its order_id is that of a
\* returned order and its review_creation_date passes the window test the
\* orders passed; a payment row is returned if and only if its order_id is
\* that of a returned order.
C7_ReviewDoubleFilter ==
    PipeFiltered =>
        /\ \A i \in DOMAIN orders :
                orders[i] \in Rows(orders_filtered)
                    <=> /\ orders[i].customer_id \in sao_paulo_customers(customers)
                        /\ InDateRange(orders[i].order_purchase_timestamp, TheStart, TheEnd)
        /\ \A i \in DOMAIN reviews :
                reviews[i] \in Rows(reviews_filtered)
                    <=> /\ reviews[i].order_id \in OrderIdsOf(orders_filtered)
                        /\ InDateRange(reviews[i].review_creation_date, TheStart, TheEnd)
        /\ \A i \in DOMAIN payments :
                payments[i] \in Rows(payments_filtered)
                    <=> payments[i].order_id \in OrderIdsOf(orders_filtered)

\* A review of a returned order is dropped for its own date, another is kept.
C7_Witness ==
    /\ PipeFiltered
    /\ reviews_filtered # << >>
    /\ \E i \in DOMAIN reviews :
        /\ reviews[i].order_id \in OrderIdsOf(orders_filtered)
        /\ reviews[i] \notin Rows(reviews_filtered)

\* The (payment row, order row) pairs the left join makes for month m.
Pairs(m) ==
    {<<i, j>> \in (DOMAIN payments_filtered) \X (DOMAIN monthly_data) :
        /\ monthly_data[j].order_id = payments_filtered[i].order_id
        /\ monthly_data[j].month = m}

\* Every bucket is the mean over the joined pairs of its month, to which a
\* payment without an order row adds nothing.
OrphansExcluded ==
    /\ \A i \in DOMAIN payment_data :
            payment_data[i].order_id \notin OrderIdsOf(monthly_data)
                => payment_data[i].month = {}
    /\ \A m \in 1..12 :
            LET k == Cardinality(Pairs(m))
                S == SumFn(Pairs(m),
                           [p \in Pairs(m) |-> payments_filtered[p[1]].payment_value])
            IN  \A b \in BucketOf(monthly_payment_stats, m) :
                    IF k = 0
                    THEN b.avg_payment = Zero
                    ELSE b.avg_payment.num * k = S * b.avg_payment.den

\* The aggregation reports the number of orphans: in a column of the table it
\* returns, or in a message.
OrphanCountReported ==
    \/ \E i \in DOMAIN monthly_payment_stats :
            /\ "orphan_count" \in DOMAIN monthly_payment_stats[i]
            /\ monthly_payment_stats[i]["orphan_count"] = Cardinality(Orphans)
    \/ messages # << >>

\* C8 as claimed: a payment row whose order_id is not in the order table is
\* left out of every bucket and counted in an orphan count the aggregation
\* produces.
C8_OrphanCounted ==
    (PaymentStatsDone /\ Orphans # {}) => (OrphansExcluded /\ OrphanCountReported)

\* C8 as amended: such a row is left out of every bucket (its month is missing
\* after the join, and the grouping drops it); the aggregation produces the
\* 12-row table of month and avg_payment and nothing else, no orphan count.
C8_OrphanDropped ==
    (PaymentStatsDone /\ Orphans # {}) =>
        /\ OrphansExcluded
        /\ ~OrphanCountReported
        /\ \A i \in DOMAIN monthly_payment_stats :
                DOMAIN monthly_payment_stats[i] = {"month", "avg_payment"}

\* An orphan beside a payment that has its order: the one bucket is the
\* second payment's value alone.
C8_Witness ==
    /\ PaymentStatsDone
    /\ Orphans # {}
    /\ \E i \in DOMAIN payments_filtered :
        /\ i \notin Orphans
        /\ \E m \in 1..12 :
            \A b \in BucketOf(monthly_payment_stats, m) :
                b.avg_payment = [num |-> payments_filtered[i].payment_value, den |-> 1]
    /\ \E i \in Orphans : payments_filtered[i].payment_value = 100
    /\ \E i \in DOMAIN payments_filtered : i \notin Orphans /\ payments_filtered[i].payment_value = 50

\* C9: when order_id is unique in the order table and every payment has its
\* order there, the join gives one row per payment row, in one month bucket:
\* the rows averaged over the 12 buckets are as many as the payment rows.
C9_JoinKeepsRows ==
    (PaymentStatsDone /\ UniqueIds(monthly_data) /\ Orphans = {}) =>
        /\ Len(payment_data) = Len(payments_filtered)
        /\ \A i \in DOMAIN payment_data :
            /\ payment_data[i].order_id = payments_filtered[i].order_id
            /\ payment_data[i].payment_value = payments_filtered[i].payment_value
            /\ \E m \in 1..12 : payment_data[i].month = {m}
        /\ SumFn(1..12, [m \in 1..12 |->
                Cardinality({i \in DOMAIN payment_data : payment_data[i].month = {m}})])
             = Len(payments_filtered)

\* Two payment rows of one order.
C9_Witness ==
    /\ PaymentStatsDone
    /\ UniqueIds(monthly_data)
    /\ Orphans = {}
    /\ Len(payments_filtered) = 2
    /\ payments_filtered[1].order_id = payments_filtered[2].order_id
    /\ Len(payment_data) = 2

\* The three conditions of a cycle that shows its charts.
Loaded == source \notin {"missing", "malformed"} /\ orders # << >>

\* The files have the columns the aggregations read.
ColumnsPresent == source \notin {"no_payment_value", "no_review_score"}

WindowValid == start_date # {} /\ end_date # {} /\ TheStart <= TheEnd

\* C10: the charts are displayed only after loading succeeded, start_date <=
\* end_date and a non-empty filtered order table.  A cycle that ends without
\* them (a missing file, start_date > end_date, no order in the window,
\* another exception) has shown an error or a warning and no chart, and no
\* exception leaves main.
C10_RenderCycle ==
    /\ charts # << >> => (Loaded /\ WindowValid /\ orders_filtered # << >>)
    /\ raised # "none" => pc = "except"
    /\ pc = "done" =>
        \/ /\ Loaded /\ WindowValid /\ orders_filtered # << >> /\ ColumnsPresent
           /\ Len(charts) = 2
        \/ /\ ~(Loaded /\ WindowValid /\ orders_filtered # << >> /\ ColumnsPresent)
           /\ charts = << >>
           /\ \E i \in DOMAIN messages : messages[i] \in {"error", "warning"}

\* A cycle that ended on start_date > end_date.
C10_Witness ==
    /\ pc = "done"
    /\ start_date # {} /\ end_date # {} /\ TheStart > TheEnd
    /\ messages = << "error" >>
    /\ charts = << >>

====
